---- MODULE Spec2Model ----
(***************************************************************************)
(* Model of the metadata acquisition orchestrator (main.py) and of the     *)
(* URL classifier of the batch script (youtube_batch_combo.py).            *)
(*                                                                         *)
(* A URL is abstracted to the set of marker substrings it contains and to  *)
(* the text that follows "/channel/" (the collection id), which is all the *)
(* code ever inspects of it.                                               *)
(***************************************************************************)
EXTENDS Naturals, Integers, Sequences, FiniteSets, TLC

\* ------------------------------------------------------------------ bounds
MaxLinks == 2
MaxRuns == 2

\* ----------------------------------------------------------------- domains
None == "None"

Markers == {"watch?v=", "youtu.be/", "/channel/", "list=", "/playlist", "/@"}
Channels == {"UC1", "UC2"}
Tags == {"t1", "t2"}
VideoIds == {"a", "b"}

\* description[:200]
MaxDescription == 200

\* a description is represented by its length; the one each video carries at
\* its source: longer than the maximum, shorter, or none at all
DescriptionOf(vid) ==
    CASE vid = "a" -> MaxDescription + 1
      [] vid = "b" -> 7
      [] OTHER -> 0

\* faulty variant: the slice is left out
TruncateNot(description) == description

\* description[:200] on a string of the given length
Truncate(description) ==
    IF description > MaxDescription THEN MaxDescription ELSE description

Url(ms, c) == [markers |-> ms, cid |-> c]

\* every URL shape: any set of markers; text after "/channel/" is a channel
\* id, or nothing that the pattern [^/]+ can match (None)
AllUrls ==
    {Url(ms, c) : ms \in SUBSET Markers, c \in {None}} \cup
    {Url(ms, c) : ms \in {m \in SUBSET Markers : "/channel/" \in m}, c \in Channels}

\* the URLs fed to the orchestrator
InputUrls ==
    { Url({"watch?v="}, None),
      Url({"watch?v=", "list="}, None),
      Url({"/channel/"}, "UC1"),
      Url({"/@"}, None) }

Contains(url, marker) == marker \in url.markers

\* ------------------------------------------------------------- classifier
\* youtube_batch_combo.py
combo_is_single_video(url) ==
    IF Contains(url, "list=") \/ Contains(url, "/playlist") \/ Contains(url, "/channel/")
    THEN FALSE
    ELSE IF Contains(url, "watch?v=") \/ Contains(url, "youtu.be/") THEN TRUE
    ELSE FALSE

\* main.py
is_single_video(url) ==
    IF Contains(url, "watch?v=") \/ Contains(url, "youtu.be/") THEN TRUE
    ELSE IF Contains(url, "/channel/") \/ Contains(url, "list=") \/ Contains(url, "/playlist")
         THEN FALSE
    ELSE IF Contains(url, "/@") THEN FALSE
    ELSE FALSE

\* re.search(r"/channel/([^/]+)", url) and match.group(1)
ExtractChannelId(url) ==
    IF Contains(url, "/channel/") THEN url.cid ELSE None

\* ------------------------------------------------------------------ cache
EmptyMap == [c \in Channels |-> None]
TagMaps == [Channels -> Tags \cup {None}]

\* in-memory value of etags_cache: a dict, or some other JSON value
MemCache(isdict, m) == [dict |-> isdict, map |-> m]

\* content of the cache file
\*   missing    no file
\*   corrupt    not parseable as JSON (includes an empty or truncated file)
\*   nondict    valid JSON that is not an object (e.g. [])
\*   dict       a JSON object channelId -> eTag
DiskCache(kind, m) == [kind |-> kind, map |-> m]
DiskCaches ==
    {DiskCache(k, EmptyMap) : k \in {"missing", "corrupt", "nondict"}} \cup
    {DiskCache("dict", m) : m \in TagMaps}

\* faulty variant: a file that is not a JSON object is read as the empty dict too
load_etags_cache_strict(file) ==
    IF file.kind = "dict" THEN MemCache(TRUE, file.map) ELSE MemCache(TRUE, EmptyMap)

load_etags_cache(file) ==
    CASE file.kind \in {"missing", "corrupt"} -> MemCache(TRUE, EmptyMap)  \* except: return {}
      [] file.kind = "nondict" -> MemCache(FALSE, EmptyMap)                \* json.load(f)
      [] OTHER -> MemCache(TRUE, file.map)

\* what json.dump(etags, f) leaves in the file once it has finished
DumpedCache(etags) ==
    IF etags.dict THEN DiskCache("dict", etags.map) ELSE DiskCache("nondict", EmptyMap)

\* the file right after open(cache_path, "w"): truncated, nothing written yet
TruncatedFile == DiskCache("corrupt", EmptyMap)

\* ------------------------------------------------------- structured API
\* one entry of resp["items"]: a search result of some kind; videoId is None
\* when it["id"] has no "videoId" key; description is snippet["description"]
Item(kind, vid) == [kind |-> kind, videoId |-> vid, description |-> DescriptionOf(vid)]
ItemLists ==
    { <<>>,
      <<Item("youtube#video", "a")>>,
      <<Item("youtube#video", "b"), Item("youtube#channel", None), Item("youtube#video", "a")>>,
      <<Item("youtube#video", "a"), Item("youtube#video", None)>> }

\* youtube.search().list(part="snippet", channelId=channel_id, maxResults=50,
\* order="date"): the request never carries an If-None-Match token, whatever
\* the cache holds
Request(channel_id, token) ==
    [channelId |-> channel_id, maxResults |-> 50, order |-> "date",
     if_none_match |-> token]
NoRequest == Request(None, None)
search_list_request(channel_id, cache) == Request(channel_id, None)

\* outcome of youtube.search().list(...).execute(): an exception, or a
\* response dict whose "etag" may be missing
Response(err, etag, items) == [err |-> err, etag |-> etag, items |-> items]
Responses(serverTag) ==
    {Response(TRUE, None, <<>>)} \cup
    {Response(FALSE, e, its) : e \in {serverTag, None}, its \in ItemLists}

\* faulty variant: the comparison with the cached tag is left out
IsUnchangedNever(new_etag, old_etag) == FALSE

\* new_etag and old_etag and new_etag == old_etag
IsUnchanged(new_etag, old_etag) ==
    new_etag # None /\ old_etag # None /\ new_etag = old_etag

\* the loop over resp["items"]: it["id"]["videoId"] of a video item without
\* that key raises KeyError
ItemsRaise(items) ==
    \E i \in DOMAIN items :
        items[i].kind = "youtube#video" /\ items[i].videoId = None

IsVideo(it) == it.kind = "youtube#video"

\* faulty variant: every listed item becomes a record
ParseItemsAll(items) ==
    [i \in DOMAIN items |->
        [videoId |-> items[i].videoId, description |-> items[i].description]]

\* videos_info, reduced to the videoId and description of each entry
ParseItems(items) ==
    LET vs == SelectSeq(items, IsVideo)
    IN  [i \in DOMAIN vs |->
            [videoId |-> vs[i].videoId, description |-> vs[i].description]]

\* faulty variant: the new tag is not stored
UpdateCacheNever(cache, channel_id, new_etag) == cache

\* faulty variant: the cache is rebuilt with the new entry alone
UpdateCacheAlone(cache, channel_id, new_etag) ==
    IF new_etag # None
    THEN MemCache(cache.dict, [c \in Channels |-> IF c = channel_id THEN new_etag ELSE None])
    ELSE cache

\* if new_etag: etags_cache[channel_id] = new_etag
UpdateCache(cache, channel_id, new_etag) ==
    IF new_etag # None
    THEN MemCache(cache.dict, [cache.map EXCEPT ![channel_id] = new_etag])
    ELSE cache

FetchResult(raised, called, unchanged, videos, cache) ==
    [raised |-> raised, called |-> called, unchanged |-> unchanged,
     videos |-> videos, cache |-> cache]

\* fetch_channel_videos_youtube_api: build_ok is "build is not None", resp is
\* what execute() answers
fetch_channel_videos_youtube_api(channel_id, build_ok, cache, resp) ==
    IF ~build_ok THEN FetchResult(FALSE, FALSE, FALSE, <<>>, cache)
    ELSE IF resp.err THEN FetchResult(TRUE, TRUE, FALSE, <<>>, cache)
    ELSE IF ~cache.dict THEN FetchResult(TRUE, TRUE, FALSE, <<>>, cache)  \* etags_cache.get
    ELSE IF IsUnchanged(resp.etag, cache.map[channel_id])
         THEN FetchResult(FALSE, TRUE, TRUE, <<>>, cache)
    ELSE IF ItemsRaise(resp.items) THEN FetchResult(TRUE, TRUE, FALSE, <<>>, cache)
    ELSE FetchResult(FALSE, TRUE, FALSE, ParseItems(resp.items),
                     UpdateCache(cache, channel_id, resp.etag))

\* ------------------------------------------------- other two strategies
\* what YouTube(url) gives when it does not raise: the fields of the video,
\* of which only video_id is kept here (None when the library supplies none)
LibVideoIds == {"a", None}

\* one *.info.json file of output_dir: its name, whether json.load accepts
\* it, metadata.get("id") and metadata.get("description") or ""
InfoFile(name, wellformed, id) ==
    [name |-> name, wellformed |-> wellformed, id |-> id,
     description |-> DescriptionOf(id)]
InfoFiles ==
    { InfoFile("f1", TRUE, "a"),
      InfoFile("f2", TRUE, None),
      InfoFile("f3", FALSE, None) }

\* an entry of all_metadata / combined_data, reduced to the fields that matter
Record(vid, source, channel, description) ==
    [videoId |-> vid, source |-> source, channelId |-> channel,
     description |-> description]

\* faulty variant: the record is tagged with the scraper's name
SingleRecordAsScraped(vid) ==
    Record(vid, "yt-dlp", None, Truncate(DescriptionOf(vid)))

\* fetch_single_video_pytube's data, with data["source"] = "pytube"
SingleRecord(vid) ==
    Record(vid, "pytube", None, Truncate(DescriptionOf(vid)))

\* ----------------------------------------------------------------- state
VARIABLES
    args,             \* parsed command line: use_api, dump_json
    api_key,          \* TRUE when YT_API_KEY is set
    build,            \* TRUE when googleapiclient was imported (build is not None)
    PYTUBE_AVAILABLE,
    input_file,       \* the input file: whether it exists, and its non-blank lines
    etags_file,       \* the cache file on disk
    info_files,       \* *.info.json files present in output_dir
    out_file,         \* the --dump-json file: whether it exists, and its records
    server,           \* the etag the remote API currently reports per channel
    pc,               \* position of main()
    etags_cache,      \* main's etags_cache
    links,            \* main's links
    idx,              \* number of links the loop has finished
    all_metadata,     \* main's all_metadata
    log,              \* what each loop iteration of this run did, in order
    saves,            \* completed save_etags_cache calls of this run
    run,              \* number of the current run
    file_at_start,    \* etags_file when the current run started
    out_at_start,     \* out_file when the current run started
    given_url,        \* the URL handed to a classifier on its own
    verdict           \* which is_single_video was applied to given_url, and its result

durable == <<args, api_key, build, PYTUBE_AVAILABLE, input_file, server, given_url, verdict>>
vars == <<given_url, verdict, args, api_key, build, PYTUBE_AVAILABLE, input_file, etags_file, info_files,
          out_file, server, pc, etags_cache, links, idx, all_metadata, log, saves,
          run, file_at_start, out_at_start>>

\* a file of the file system that holds a list
File(exists, content) == [exists |-> exists, content |-> content]
NoFile == File(FALSE, <<>>)

LinkLists == UNION {[1..n -> InputUrls] : n \in 0..MaxLinks}

\* what one loop iteration did with links[i]: the branch taken, what the
\* library answered, the request sent to the API and its answer, the cache
\* entry of cid before (old_etag) and
\* after (cached) the call, how many records were appended, whether yt-dlp
\* was run, and whether an exception ended the run
Step(i, single, lib, api, cid, old, req, resp, cached, appended, scraped, crashed) ==
    [i |-> i, single |-> single, lib |-> lib, api |-> api, cid |-> cid,
     old_etag |-> old, req |-> req, resp |-> resp, cached |-> cached,
     appended |-> appended, scraped |-> scraped, crashed |-> crashed]
NoResponse == Response(TRUE, None, <<>>)

Verdict(by, single) == [by |-> by, single |-> single]
NoVerdict == Verdict("none", FALSE)

Init ==
    /\ args \in [use_api : BOOLEAN, dump_json : BOOLEAN]
    /\ api_key \in BOOLEAN
    /\ build \in BOOLEAN
    /\ PYTUBE_AVAILABLE \in BOOLEAN
    /\ input_file \in {NoFile} \cup {File(TRUE, l) : l \in LinkLists}
    /\ etags_file \in DiskCaches
    /\ info_files = {}
    /\ out_file = NoFile
    /\ server = [c \in Channels |-> "t1"]
    /\ pc = "load"
    /\ etags_cache = MemCache(TRUE, EmptyMap)
    /\ links = <<>>
    /\ idx = 0
    /\ all_metadata = <<>>
    /\ log = <<>>
    /\ saves = 0
    /\ run = 1
    /\ file_at_start = etags_file
    /\ out_at_start = out_file
    /\ given_url = Url({}, None)
    /\ verdict = NoVerdict

\* etags_cache = load_etags_cache(args.etags_json)
LoadCache ==
    /\ pc = "load"
    /\ etags_cache' = load_etags_cache(etags_file)
    /\ pc' = "read"
    /\ UNCHANGED <<durable, etags_file, info_files, out_file, links, idx, all_metadata,
                   log, saves, run, file_at_start, out_at_start>>

\* with open(args.input) ...: FileNotFoundError when the file is absent
ReadInput ==
    /\ pc = "read"
    /\ IF ~input_file.exists
       THEN pc' = "aborted" /\ links' = links
       ELSE pc' = "loop" /\ links' = input_file.content
    /\ UNCHANGED <<durable, etags_file, info_files, out_file, etags_cache, idx,
                   all_metadata, log, saves, run, file_at_start, out_at_start>>

\* run_yt_dlp_metadata_only(url, output_dir): the subprocess leaves no result
\* file behind (it failed), or one good one, or good and bad ones
ScrapeResults == {{}, {InfoFile("f1", TRUE, "a")}, InfoFiles}

CurUrl == links[idx + 1]
InLoop == pc = "loop" /\ idx < Len(links)

\* lines 250-261: the single-video branch
ProcessSingle ==
    /\ InLoop
    /\ is_single_video(CurUrl)
    /\ \/ /\ ~PYTUBE_AVAILABLE                       \* fetch returns {}: fall back
          /\ \E written \in ScrapeResults : info_files' = info_files \cup written
          /\ log' = Append(log, Step(idx + 1, TRUE, "unavailable", "none", None, None,
                                     NoRequest, NoResponse, None, 0, TRUE, FALSE))
          /\ idx' = idx + 1
          /\ UNCHANGED <<pc, all_metadata>>
       \/ /\ PYTUBE_AVAILABLE                        \* YouTube(url) raises
          /\ log' = Append(log, Step(idx + 1, TRUE, "raised", "none", None, None,
                                     NoRequest, NoResponse, None, 0, FALSE, TRUE))
          /\ pc' = "aborted"
          /\ UNCHANGED <<info_files, idx, all_metadata>>
       \/ /\ PYTUBE_AVAILABLE                        \* data is a non-empty dict
          /\ \E vid \in LibVideoIds :
                /\ all_metadata' = Append(all_metadata, SingleRecord(vid))
                /\ log' = Append(log, Step(idx + 1, TRUE, IF vid = None THEN "noid" ELSE "ok",
                                           "none", None, None, NoRequest, NoResponse, None,
                                           1, FALSE, FALSE))
          /\ idx' = idx + 1
          /\ UNCHANGED <<pc, info_files>>
    /\ UNCHANGED <<durable, etags_file, out_file, etags_cache, links, saves, run,
                   file_at_start, out_at_start>>

\* faulty variant: --use-api is not consulted
UsesApiUnasked(url) == api_key /\ ExtractChannelId(url) # None

\* faulty variant: the API key is not consulted
UsesApiWithoutKey(url) == args.use_api /\ ExtractChannelId(url) # None

\* if args.use_api and api_key: ... if channel_id:
UsesApi(url) == args.use_api /\ api_key /\ ExtractChannelId(url) # None

ApiOutcome(r) ==
    IF r.raised THEN "raised"
    ELSE IF ~r.called THEN "unavailable"
    ELSE IF r.unchanged THEN "unchanged"
    ELSE "ok"

ApiRecords(videos, channel_id) ==
    [i \in DOMAIN videos |->
        Record(videos[i].videoId, "YouTubeDataAPI", channel_id, videos[i].description)]

\* lines 277-290: the Data API branch
ProcessCollectionApi ==
    /\ InLoop
    /\ ~is_single_video(CurUrl)
    /\ UsesApi(CurUrl)
    /\ LET channel_id == ExtractChannelId(CurUrl) IN
       \E resp \in Responses(server[channel_id]) :
          LET r == fetch_channel_videos_youtube_api(channel_id, build, etags_cache, resp)
              old == IF etags_cache.dict THEN etags_cache.map[channel_id] ELSE None
              new == IF r.cache.dict THEN r.cache.map[channel_id] ELSE None
              req == IF r.called THEN search_list_request(channel_id, etags_cache)
                     ELSE NoRequest
              step(n) == Step(idx + 1, FALSE, "none", ApiOutcome(r), channel_id, old,
                              req, resp, new, n, FALSE, r.raised)
          IN  \* without the client library no request is made: one outcome only
              /\ build \/ resp = NoResponse
              /\ IF r.raised
                 THEN /\ pc' = "aborted"
                      /\ log' = Append(log, step(0))
                      /\ etags_cache' = r.cache
                      /\ UNCHANGED <<idx, all_metadata>>
                 ELSE /\ etags_cache' = r.cache
                      /\ all_metadata' =
                            IF r.unchanged THEN all_metadata
                            ELSE all_metadata \o ApiRecords(r.videos, channel_id)
                      /\ log' = Append(log, step(IF r.unchanged THEN 0 ELSE Len(r.videos)))
                      /\ idx' = idx + 1
                      /\ pc' = pc
    /\ UNCHANGED <<durable, etags_file, info_files, out_file, links, saves, run,
                   file_at_start, out_at_start>>

\* lines 291-296: both yt-dlp fallbacks of the channel/playlist branch
ProcessCollectionScrape ==
    /\ InLoop
    /\ ~is_single_video(CurUrl)
    /\ ~UsesApi(CurUrl)
    /\ \E written \in ScrapeResults : info_files' = info_files \cup written
    /\ log' = Append(log, Step(idx + 1, FALSE, "none", "none", ExtractChannelId(CurUrl),
                               None, NoRequest, NoResponse, None, 0, TRUE, FALSE))
    /\ idx' = idx + 1
    /\ UNCHANGED <<durable, etags_file, out_file, pc, etags_cache, links, all_metadata,
                   saves, run, file_at_start, out_at_start>>

\* save_etags_cache, first half: mkdir and open(cache_path, "w"), which
\* truncates the file in place
SaveOpen ==
    /\ pc = "loop"
    /\ idx = Len(links)
    /\ etags_file' = TruncatedFile
    /\ pc' = "saving"
    /\ UNCHANGED <<durable, info_files, out_file, etags_cache, links, idx, all_metadata,
                   log, saves, run, file_at_start, out_at_start>>

\* save_etags_cache, second half: json.dump has written everything and the
\* file is closed
SaveWrite ==
    /\ pc = "saving"
    /\ etags_file' = DumpedCache(etags_cache)
    /\ saves' = saves + 1
    /\ pc' = "dump"
    /\ UNCHANGED <<durable, info_files, out_file, etags_cache, links, idx, all_metadata,
                   log, run, file_at_start, out_at_start>>

\* the orders in which glob("*.info.json") may list the files
GlobOrders(files) ==
    {o \in [1..Cardinality(files) -> files] :
        \A i, j \in DOMAIN o : i # j => o[i] # o[j]}

IsWellFormed(f) == f.wellformed

\* lines 307-323: one record per file that json.load and .get accept
Sweep(order) ==
    LET ok == SelectSeq(order, IsWellFormed)
    IN  [i \in DOMAIN ok |->
            Record(ok[i].id, "yt-dlp", None, Truncate(ok[i].description))]

\* faulty variant: the swept records come first
CombinedDataSweptFirst(metadata, swept) == swept \o metadata

\* combined_data = list(all_metadata), then one append per swept file
CombinedData(metadata, swept) == metadata \o swept

\* lines 303-330 when --dump-json is not given: nothing to do
SkipDump ==
    /\ pc = "dump"
    /\ ~args.dump_json
    /\ pc' = "done"
    /\ UNCHANGED <<durable, etags_file, info_files, out_file, etags_cache, links, idx,
                   all_metadata, log, saves, run, file_at_start, out_at_start>>

\* lines 303-330: combined_data is written over the --dump-json file
Dump ==
    /\ pc = "dump"
    /\ args.dump_json
    /\ \E order \in GlobOrders(info_files) :
          out_file' = File(TRUE, CombinedData(all_metadata, Sweep(order)))
    /\ pc' = "done"
    /\ UNCHANGED <<durable, etags_file, info_files, etags_cache, links, idx,
                   all_metadata, log, saves, run, file_at_start, out_at_start>>

\* lines 326-328: mkdir or open(out_path, "w") raises (path not writable)
DumpFail ==
    /\ pc = "dump"
    /\ args.dump_json
    /\ pc' = "aborted"
    /\ UNCHANGED <<durable, etags_file, info_files, out_file, etags_cache, links, idx,
                   all_metadata, log, saves, run, file_at_start, out_at_start>>

Running == pc \in {"load", "read", "loop", "saving", "dump"}

\* the process is terminated from outside; only the files survive
Kill ==
    /\ Running
    /\ pc' = "killed"
    /\ etags_cache' = MemCache(TRUE, EmptyMap)
    /\ links' = <<>>
    /\ idx' = 0
    /\ all_metadata' = <<>>
    /\ log' = <<>>
    /\ saves' = 0
    /\ UNCHANGED <<durable, etags_file, info_files, out_file, run, file_at_start,
                   out_at_start>>

\* the program is started again with the same command line and input
NextRun ==
    /\ ~Running
    /\ run < MaxRuns
    /\ run' = run + 1
    /\ pc' = "load"
    /\ etags_cache' = MemCache(TRUE, EmptyMap)
    /\ links' = <<>>
    /\ idx' = 0
    /\ all_metadata' = <<>>
    /\ log' = <<>>
    /\ saves' = 0
    /\ file_at_start' = etags_file
    /\ out_at_start' = out_file
    /\ UNCHANGED <<durable, etags_file, info_files, out_file>>

\* between two runs the channel gets new uploads: its etag changes
ServerChange ==
    /\ ~Running
    /\ run < MaxRuns
    /\ \E c \in Channels :
          \E t \in Tags \ {server[c]} : server' = [server EXCEPT ![c] = t]
    /\ UNCHANGED <<args, api_key, build, PYTUBE_AVAILABLE, input_file, etags_file,
                   info_files, out_file, pc, etags_cache, links, idx, all_metadata, log,
                   saves, run, file_at_start, out_at_start, given_url, verdict>>

RunNext ==
    \/ LoadCache
    \/ ReadInput
    \/ ProcessSingle
    \/ ProcessCollectionApi
    \/ ProcessCollectionScrape
    \/ SaveOpen
    \/ SaveWrite
    \/ SkipDump
    \/ Dump
    \/ DumpFail
    \/ Kill

\* one run of main()
Next == RunNext
Spec == Init /\ [][Next]_vars

\* successive runs over the same files
RunsNext == RunNext \/ NextRun \/ ServerChange
SpecRuns == Init /\ [][RunsNext]_vars

\* ------------------------------------------- the classifiers on their own
orchestrator == <<args, api_key, build, PYTUBE_AVAILABLE, input_file, etags_file,
                  info_files, out_file, server, pc, etags_cache, links, idx,
                  all_metadata, log, saves, run, file_at_start, out_at_start>>

ClassifyInit ==
    /\ given_url \in AllUrls
    /\ verdict = NoVerdict
    /\ args = [use_api |-> FALSE, dump_json |-> FALSE]
    /\ api_key = FALSE
    /\ build = FALSE
    /\ PYTUBE_AVAILABLE = FALSE
    /\ input_file = NoFile
    /\ etags_file = DiskCache("missing", EmptyMap)
    /\ info_files = {}
    /\ out_file = NoFile
    /\ server = [c \in Channels |-> "t1"]
    /\ pc = "classify"
    /\ etags_cache = MemCache(TRUE, EmptyMap)
    /\ links = <<>>
    /\ idx = 0
    /\ all_metadata = <<>>
    /\ log = <<>>
    /\ saves = 0
    /\ run = 1
    /\ file_at_start = etags_file
    /\ out_at_start = out_file

\* main.py: is_single_video(url)
ClassifyMain ==
    /\ pc = "classify"
    /\ verdict' = Verdict("main", is_single_video(given_url))
    /\ UNCHANGED <<orchestrator, given_url>>

\* youtube_batch_combo.py: process_entry's single = is_single_video(url)
ClassifyCombo ==
    /\ pc = "classify"
    /\ verdict' = Verdict("combo", combo_is_single_video(given_url))
    /\ UNCHANGED <<orchestrator, given_url>>

ClassifyNext == ClassifyMain \/ ClassifyCombo
SpecClassify == ClassifyInit /\ [][ClassifyNext]_vars

\* ================================================================ claims
Steps == {log[i] : i \in DOMAIN log}

\* number of records the iterations before the i-th appended
RECURSIVE AppendedBefore(_)
AppendedBefore(i) ==
    IF i <= 1 THEN 0 ELSE AppendedBefore(i - 1) + log[i - 1].appended

\* the records the i-th iteration appended to all_metadata
RecordsOf(i) ==
    SubSeq(all_metadata, AppendedBefore(i) + 1, AppendedBefore(i) + log[i].appended)

\* the i-th iteration called the structured API for an extracted id and the
\* call failed: an exception, or the client library is not installed
ApiFailed(s) == s.api \in {"raised", "unavailable"}

\* C1: whenever the structured-API call for a collection URL fails in any way,
\* generic scrape is run for that URL and the run is not ended by it.
C1_ApiFailureFallsBack ==
    \A s \in Steps : ApiFailed(s) => s.scraped /\ ~s.crashed

\* C2: whenever the single-item library raises or returns no item id for a
\* Single URL, no record is appended, generic scrape is run for that URL and
\* the run is not ended by it.
C2_SingleFailureFallsBack ==
    \A s \in Steps :
        (s.single /\ s.lib \in {"raised", "noid"}) =>
            s.appended = 0 /\ s.scraped /\ ~s.crashed

\* the API answered the i-th iteration with the tag the cache already held
SameTag(s) ==
    /\ s.api \in {"ok", "unchanged"}
    /\ s.old_etag # None
    /\ s.resp.etag = s.old_etag

\* C3: when the cache holds a tag for the collection and the response
\* carries that same tag, the outcome is unchanged, no record is appended,
\* generic scrape is not run, and the cache entry still holds the old tag.
C3_SameTagSkips ==
    \A s \in Steps :
        SameTag(s) =>
            /\ s.api = "unchanged"
            /\ s.appended = 0
            /\ ~s.scraped
            /\ s.cached = s.old_etag

C3_Witness ==
    \E s \in Steps : SameTag(s) /\ s.api = "unchanged" /\ pc = "done"

\* the API answered the i-th iteration with a tag the cache did not hold
FreshTag(s) ==
    /\ s.api \in {"ok", "unchanged"}
    /\ s.resp.etag # None
    /\ s.resp.etag # s.old_etag

HasVideoId(it) == it.videoId # None

\* the records a response's items stand for: one per item that carries a
\* video id, in the order listed
ListedRecords(items, channel_id) ==
    LET its == SelectSeq(items, HasVideoId)
    IN  [k \in DOMAIN its |->
            Record(its[k].videoId, "YouTubeDataAPI", channel_id, its[k].description)]

\* C4: when the cache holds no tag for the collection, or another tag than the
\* response carries, a successful call returns the listed items as records, in
\* order, and afterwards the cache entry equals the response's tag.
C4_FreshTagFetches ==
    \A i \in DOMAIN log :
        FreshTag(log[i]) =>
            /\ log[i].api = "ok"
            /\ RecordsOf(i) = ListedRecords(log[i].resp.items, log[i].cid)
            /\ log[i].cached = log[i].resp.etag

C4_Witness ==
    \E i \in DOMAIN log :
        /\ FreshTag(log[i])
        /\ log[i].old_etag # None
        /\ Len(RecordsOf(i)) = 2
        /\ etags_cache.map[log[i].cid] = log[i].resp.etag
        /\ pc = "done"

Range(f) == {f[k] : k \in DOMAIN f}

\* in a later run, the API answered for s.cid with the very tag the cache file
\* held when the run started: the collection has not changed since that tag
\* was saved
UnchangedSinceSaved(s) ==
    /\ run > 1
    /\ s.api \in {"ok", "unchanged"}
    /\ file_at_start.kind = "dict"
    /\ file_at_start.map[s.cid] # None
    /\ s.resp.etag = file_at_start.map[s.cid]

\* C5: a run that follows another against an unchanged collection appends no
\* record for that collection, and the records the output held for it before
\* the run are still in the output once the run is done.
C5_SecondRunIdempotent ==
    \A s \in Steps :
        UnchangedSinceSaved(s) =>
            /\ s.appended = 0
            /\ pc = "done" =>
                  \A r \in Range(out_at_start.content) :
                      r.channelId = s.cid => r \in Range(out_file.content)

\* C6: whenever the process is terminated, the cache file is what it was before
\* the run or a completely written new value, never a truncated one.
C6_KillKeepsCacheWhole ==
    pc = "killed" =>
        \/ etags_file = file_at_start
        \/ etags_file.kind \in {"dict", "nondict"}

\* C7: a completed run has saved the cache exactly once; a save starts only
\* after the last link has been processed; and a run that ends early leaves the
\* cache file as it was.
C7_SaveOnceAtEnd ==
    /\ saves <= 1
    /\ pc = "done" => saves = 1
    /\ (pc = "saving" \/ saves > 0) => idx = Len(links) /\ Len(log) = Len(links)
    /\ pc \in {"aborted", "killed"} => etags_file = file_at_start

\* the response listed an item without a video id
ListsItemWithoutId(s) ==
    /\ s.api \in {"ok", "unchanged", "raised"}
    /\ ~s.resp.err
    /\ \E k \in DOMAIN s.resp.items : s.resp.items[k].videoId = None

\* C8: every record accumulated or written out has an item id, and an API
\* item, library result or result file without one does not end the run.
C8_EveryRecordHasId ==
    /\ \A r \in Range(all_metadata) : r.videoId # None
    /\ \A r \in Range(out_file.content) : r.videoId # None
    /\ \A s \in Steps : (ListsItemWithoutId(s) \/ s.lib = "noid") => ~s.crashed

HasSingleMarker(u) == Contains(u, "watch?v=") \/ Contains(u, "youtu.be/")
HasCollectionMarker(u) ==
    \/ Contains(u, "/channel/")
    \/ Contains(u, "list=")
    \/ Contains(u, "/playlist")
    \/ Contains(u, "/@")

\* C9: a classifier answers Single for every URL with a single-item marker,
\* whatever collection markers it also has, and Collection for every URL with
\* a collection marker and no single-item marker.
C9_SingleMarkerWins ==
    verdict.by # "none" =>
        /\ HasSingleMarker(given_url) => verdict.single
        /\ (HasCollectionMarker(given_url) /\ ~HasSingleMarker(given_url)) => ~verdict.single

\* the call was answered with a response whose items all parse
Answered(s) ==
    s.api \in {"ok", "unchanged", "raised"} /\ ~s.resp.err /\ ~ItemsRaise(s.resp.items)

\* C10: when the cache file is missing, unreadable or holds no mapping, load
\* returns the empty mapping, and the run goes on as with no cached tags.
C10_LoadYieldsMapping ==
    /\ pc = "read" =>
          etags_cache =
              MemCache(TRUE, IF file_at_start.kind = "dict"
                             THEN file_at_start.map ELSE EmptyMap)
    /\ file_at_start.kind # "dict" =>
          \A s \in Steps : Answered(s) => ~s.crashed

Min(a, b) == IF a < b THEN a ELSE b

\* C11: every record written out carries its source description cut to the
\* maximum length when it is longer, and unchanged otherwise.
C11_DescriptionTruncated ==
    \A r \in Range(out_file.content) :
        r.description = Min(DescriptionOf(r.videoId), MaxDescription)

\* structured-API use is switched off for the run: no --use-api, or no key
ApiDisabled == ~(args.use_api /\ api_key)

\* the mapping the run started from
LoadedMap == IF file_at_start.kind = "dict" THEN file_at_start.map ELSE EmptyMap

\* the records of the output that follow those accumulated in memory
SweptPart(content) == SubSeq(content, Len(all_metadata) + 1, Len(content))

\* C12: with structured-API use disabled, a collection URL causes no API
\* request and no cache change, yt-dlp is run for it, nothing is appended for
\* it in the loop, and whatever the output holds besides the single-item
\* records comes from the sweep of result files, tagged yt-dlp.
C12_DisabledApiDefers ==
    ApiDisabled =>
        /\ \A s \in Steps :
              ~s.single =>
                  /\ s.api = "none"
                  /\ s.req = NoRequest
                  /\ s.scraped
                  /\ s.appended = 0
                  /\ ~s.crashed
        /\ pc \in {"read", "loop", "saving", "dump", "done", "aborted"} =>
              etags_cache.map = LoadedMap
        /\ \A r \in Range(all_metadata) : r.source = "pytube"
        /\ (pc = "done" /\ out_file.exists) =>
              /\ SubSeq(out_file.content, 1, Len(all_metadata)) = all_metadata
              /\ \A r \in Range(SweptPart(out_file.content)) :
                    /\ r.source = "yt-dlp"
                    /\ \E f \in info_files : f.wellformed /\ f.id = r.videoId

C12_Witness ==
    /\ ~args.use_api
    /\ pc = "done"
    /\ \E s \in Steps : ~s.single /\ s.cid # None /\ s.scraped
    /\ \E r \in Range(out_file.content) : r.source = "yt-dlp"

\* C13: when the single-item library returns a valid item for a Single URL,
\* exactly one record is appended, with that item's id and tagged pytube, and
\* neither yt-dlp nor the structured API is used for that URL.
C13_SingleSuccessRecordsOne ==
    \A i \in DOMAIN log :
        (log[i].single /\ log[i].lib = "ok") =>
            /\ log[i].appended = 1
            /\ Len(RecordsOf(i)) = 1
            /\ RecordsOf(i)[1].videoId \in LibVideoIds \ {None}
            /\ RecordsOf(i)[1].source = "pytube"
            /\ ~log[i].scraped
            /\ log[i].api = "none"
            /\ log[i].req = NoRequest
            /\ ~log[i].crashed

C13_Witness ==
    /\ pc = "done"
    /\ \E i \in DOMAIN log :
          /\ log[i].single /\ log[i].lib = "ok"
          /\ Contains(links[i], "list=")
    /\ \E r \in Range(out_file.content) : r.source = "pytube" /\ r.videoId = "a"

\* the required input is missing: no input file, or no link in it
InputMissing == ~input_file.exists \/ input_file.content = <<>>

\* C14: when the required input is missing, the run stops before any API
\* request, library call or yt-dlp run, and never gets to the cache save or
\* to the output step.
C14_MissingInputAborts ==
    InputMissing =>
        /\ log = <<>>
        /\ pc \notin {"saving", "dump", "done"}
        /\ saves = 0
        /\ etags_file = file_at_start
        /\ out_file = out_at_start

\* the three terminal states of a processed URL
Recorded(s) == s.appended >= 1
Skipped(s) == s.api = "unchanged"
Deferred(s) == s.scraped

\* C15: every processed URL ends in exactly one of Recorded(n) with n >= 1,
\* Skipped (only on the API's unchanged outcome) or Deferred; none ends with
\* no record, no unchanged signal and no generic scrape.
C15_OneTerminalState ==
    \A s \in Steps :
        ~s.crashed =>
            /\ Cardinality({k \in 1..3 :
                   \/ k = 1 /\ Recorded(s)
                   \/ k = 2 /\ Skipped(s)
                   \/ k = 3 /\ Deferred(s)}) = 1
            /\ (s.api \in {"ok", "unavailable"} /\ s.appended = 0) => Deferred(s)

\* the URL carries its collection id in the /channel/<id> path segment
HasCollectionId(url) == Contains(url, "/channel/") /\ url.cid # None

\* the URL names its collection by a handle or alias only
IsHandle(url) == ~Contains(url, "/channel/") /\ Contains(url, "/@")

\* C16: the Data API function is called for a collection URL exactly when
\* --use-api is given, an API key is loaded and the URL has a /channel/<id>
\* segment; a handle URL is never sent to it and goes to yt-dlp instead.
C16_ApiIffEnabledAndId ==
    \A s \in Steps :
        ~s.single =>
            /\ s.api # "none" <=>
                   (args.use_api /\ api_key /\ HasCollectionId(links[s.i]))
            /\ s.api # "none" => s.cid = links[s.i].cid
            /\ IsHandle(links[s.i]) =>
                   s.api = "none" /\ s.req = NoRequest /\ s.scraped

C16_Witness ==
    /\ args.use_api /\ api_key
    /\ \E s \in Steps : ~s.single /\ s.api = "ok" /\ HasCollectionId(links[s.i])
    /\ \E s \in Steps : ~s.single /\ IsHandle(links[s.i]) /\ s.scraped

\* C17: a Data API call for channel c leaves the cache entries of all other
\* channels alone; a call that raises or reports unchanged leaves the whole
\* in-memory cache as it was; only a successful call changes it, at key c.
C17_CallChangesOwnEntryOnly ==
    [][ (pc = "loop" /\ pc' # "killed") =>
            IF Len(log') = Len(log) + 1
            THEN LET s == log'[Len(log')] IN
                 /\ etags_cache'.dict = etags_cache.dict
                 /\ \A c \in Channels :
                       c # s.cid => etags_cache'.map[c] = etags_cache.map[c]
                 /\ s.api # "ok" => etags_cache' = etags_cache
            ELSE etags_cache' = etags_cache ]_vars

C17_Witness ==
    /\ \E s \in Steps :
          /\ s.api = "ok" /\ s.cid = "UC1" /\ s.cached # s.old_etag
          /\ etags_cache.map["UC1"] = s.cached
    /\ etags_cache.map["UC2"] # None
    /\ \E s \in Steps : s.api \in {"unchanged", "raised"}

\* C18: a request for a channel whose tag is cached carries that tag as its
\* If-None-Match token, and a request for a channel without a cached tag
\* carries none; one request is sent per call.
C18_RequestCarriesCachedTag ==
    \A s \in Steps :
        s.req # NoRequest =>
            /\ s.req.channelId = s.cid
            /\ s.req.if_none_match = s.old_etag

\* the run has got to the sweep of output_dir, or past it
AtSweep == pc \in {"dump", "done"}

\* C19: every yt-dlp run for a deferred URL is over before the sweep starts,
\* each URL gets one loop iteration and so at most one yt-dlp run, and the
\* sweep happens only with --dump-json, its records coming after those the
\* loop collected in memory.
C19_ScrapeThenSweep ==
    /\ \A i \in DOMAIN log : log[i].i = i
    /\ Len(log) <= Len(links)
    /\ AtSweep => (Len(log) = Len(links) /\ idx = Len(links))
    /\ out_file # out_at_start => (args.dump_json /\ pc = "done")
    /\ (pc = "done" /\ args.dump_json) =>
          /\ out_file.exists
          /\ SubSeq(out_file.content, 1, Len(all_metadata)) = all_metadata
          /\ Len(SweptPart(out_file.content)) =
                 Cardinality({f \in info_files : f.wellformed})
          /\ \A r \in Range(SweptPart(out_file.content)) :
                /\ r.source = "yt-dlp"
                /\ \E f \in info_files : f.wellformed /\ f.id = r.videoId

C19_Witness ==
    /\ pc = "done" /\ args.dump_json
    /\ all_metadata # <<>>
    /\ \E s \in Steps : s.scraped
    /\ Len(out_file.content) > Len(all_metadata)

\* the cache file holds the tag that the i-th iteration of this run fetched
TagPersisted(i) ==
    /\ log[i].api = "ok"
    /\ log[i].cached # None
    /\ etags_file.kind = "dict"
    /\ etags_file.map[log[i].cid] = log[i].cached

\* C20: when a run has stored a channel's tag in the cache file, the records
\* it fetched from the Data API together with that tag are in the output
\* file it wrote; no tag is persisted for items that were never emitted.
C20_TagOnlyForEmittedItems ==
    (pc \in {"done", "aborted"} /\ saves = 1) =>
        \A i \in DOMAIN log :
            TagPersisted(i) =>
                \A r \in Range(RecordsOf(i)) :
                    out_file.exists /\ r \in Range(out_file.content)

====
